---- MODULE Spec2Model ----
(***************************************************************************)
(* Fiber bundle deformation visualisation.                                 *)
(*                                                                         *)
(* Two components are modelled:                                            *)
(*   - the closed-form 3x3 WebGL component (vertex shader vsSource,        *)
(*     initBuffers/createFiber, the draw effect), and                      *)
(*   - the general NxN react-three-fiber component (FiberBundle: the       *)
(*     useFrame pass, the render that builds the base-space grid lines,    *)
(*     the selection and slider handlers).                                 *)
(*                                                                         *)
(* Numbers are fixed point.  The closed-form component works in units of   *)
(* 1/SCALE; every float operation of the shader is one rounded fixed-point *)
(* operation.  The units of the general component are given where its      *)
(* state is declared.                                                      *)
(***************************************************************************)
EXTENDS Integers, Sequences, FiniteSets

VARIABLES
    \* ---- closed-form 3x3 component ----
    deformation,      \* useState(0): slider value, in hundredths (0..100)
    drawPending,      \* the [deformation] effect has not yet run for this render
    frame,            \* what the last draw put on screen: per fiber its uniform,
                      \* its xy scale factor and its eight deformed vertices
    \* ---- general NxN component ----
    fiberCount,       \* prop fiberCount (N)
    fiberSpacing,     \* prop fiberSpacing, in world units
    selectedFiber,    \* useState<{i,j}|null>
    deformationValue, \* useState(1): slider value, in hundredths (50..200)
    meshRef,          \* meshRef.current is set (the instanced mesh is mounted)
    deformations,     \* deformations.current[i][j], in units of 1/FONE
    posX,             \* posXRef.current[i][j], in units of 1/(2*FONE)
    posZ,             \* posZRef.current[i][j], in units of 1/(2*FONE)
    instanceMatrix,   \* per instance index: the transform given to setMatrixAt
    gridLines,        \* the positions the last render read for the grid lines
    filled,           \* a pass has written posX/posZ since construction
    pc                \* "constructed" | "rendered" | "passed"

closedVars == <<deformation, drawPending, frame>>
generalVars == <<fiberCount, fiberSpacing, selectedFiber, deformationValue, meshRef,
                 deformations, posX, posZ, instanceMatrix, gridLines, filled, pc>>
vars == <<deformation, drawPending, frame,
          fiberCount, fiberSpacing, selectedFiber, deformationValue, meshRef,
          deformations, posX, posZ, instanceMatrix, gridLines, filled, pc>>

\* The value of every variable of a component that is not the one mounted.
Unmounted == "unmounted"

(***************************************************************************)
(* Fixed-point arithmetic of the closed-form component.                    *)
(***************************************************************************)
\* One unit is 1e-4: the square of the slider step 0.01.
SCALE == 100 * 100

Abs(a) == IF a < 0 THEN -a ELSE a

Max(a, b) == IF a >= b THEN a ELSE b

Min(a, b) == IF a <= b THEN a ELSE b

\* a * b, rounded to the nearest unit (half away from zero).
FMul(a, b) ==
    LET p == a * b
    IN  IF p >= 0 THEN (p + SCALE \div 2) \div SCALE
                  ELSE -((-p + SCALE \div 2) \div SCALE)

\* a / b for b > 0, rounded to the nearest unit (half away from zero).
FDiv(a, b) ==
    LET p == a * SCALE
    IN  IF p >= 0 THEN (p + b \div 2) \div b
                  ELSE -((-p + b \div 2) \div b)

RECURSIVE SqrtSearch(_, _, _)
SqrtSearch(n, lo, hi) ==
    IF lo >= hi THEN lo
    ELSE LET mid == (lo + hi + 1) \div 2
         IN  IF mid * mid <= n THEN SqrtSearch(n, mid, hi)
                               ELSE SqrtSearch(n, lo, mid - 1)

\* floor(sqrt(n)) for an integer n >= 0.
ISqrt(n) == SqrtSearch(n, 0, 46340)

\* sqrt(a) of a fixed-point a >= 0.
FSqrt(a) == ISqrt(a * SCALE)

\* length(v.xy)
Length(x, y) == ISqrt(x * x + y * y)

(***************************************************************************)
(* Closed-form component: geometry (initBuffers, createFiber).             *)
(***************************************************************************)
size == 2000

height == 5000

Fibers == 0 .. 8

CenterFiber == 4

\* initBuffers: the center of fiber i of the 3x3 grid.
FiberX(i) == ((i % 3) - 1) * (SCALE \div 2)

FiberY(i) == ((i \div 3) - 1) * (SCALE \div 2)

\* createFiber: the eight vertices pushed for a fiber centered at (x, y):
\* the bottom face, then the top face.
createFiber(x, y) ==
    << <<x - size, y - size, -height>>, <<x + size, y - size, -height>>,
       <<x + size, y + size, -height>>, <<x - size, y + size, -height>>,
       <<x - size, y - size, height>>,  <<x + size, y - size, height>>,
       <<x + size, y + size, height>>,  <<x - size, y + size, height>> >>

\* The position buffer: fiber i owns vertices 8i .. 8i+7.
Positions == [i \in Fibers |-> createFiber(FiberX(i), FiberY(i))]

(***************************************************************************)
(* Closed-form component: the vertex shader vsSource.                      *)
(***************************************************************************)
MAX_EXPANSION == 21000

MIN_SPACING == 1000

\* uDeformation as a fixed-point number, from the slider's hundredths.
Uniform1f(d) == d * (SCALE \div 100)

\* Faulty variant: the interpolation runs from MAX_EXPANSION down to 1.
ExpansionFactorInverted(uDeformation) ==
    SCALE + FMul(SCALE - uDeformation, MAX_EXPANSION - SCALE)

\* float expansionFactor = 1.0 + (uDeformation * (MAX_EXPANSION - 1.0));
ExpansionFactor(uDeformation) ==
    SCALE + FMul(uDeformation, MAX_EXPANSION - SCALE)

\* Faulty variant: the center's half-width is not subtracted.
MaxSafeContractionNoCenter(uDeformation, ufp) ==
    LET dist == Length(ufp[1], ufp[2])
        maxContraction == dist - MIN_SPACING
    IN  FDiv(maxContraction, dist)

\* float maxContraction = length(uFiberPosition.xy) - (centerExpansion * 0.2) - MIN_SPACING;
\* divided by length(uFiberPosition.xy) where contractionFactor is computed.
MaxSafeContraction(uDeformation, ufp) ==
    LET centerExpansion == ExpansionFactor(uDeformation)
        dist == Length(ufp[1], ufp[2])
        maxContraction == dist - FMul(centerExpansion, SCALE \div 5) - MIN_SPACING
    IN  FDiv(maxContraction, dist)

\* Faulty variant: the remaining area is shared among nine fibers, not eight.
AreaBasedContractionNinths(uDeformation) ==
    LET centerExpansion == ExpansionFactor(uDeformation)
        centerArea == FMul(centerExpansion, centerExpansion)
        remainingArea == 9 * SCALE - centerArea
    IN  FSqrt(FDiv(remainingArea, 9 * SCALE))

\* float areaBasedContraction = sqrt(remainingArea / 8.0);
AreaBasedContraction(uDeformation) ==
    LET centerExpansion == ExpansionFactor(uDeformation)
        centerArea == FMul(centerExpansion, centerExpansion)
        remainingArea == 9 * SCALE - centerArea
    IN  FSqrt(FDiv(remainingArea, 8 * SCALE))

\* float contractionFactor = max(maxContraction / length(...), areaBasedContraction);
ContractionFactor(uDeformation, ufp) ==
    Max(MaxSafeContraction(uDeformation, ufp), AreaBasedContraction(uDeformation))

\* The branch on originalDistFromCenter < 0.1.
IsCenterUniform(ufp) == Length(ufp[1], ufp[2]) < SCALE \div 10

\* The factor localPos.xy is multiplied by.
FiberScale(uDeformation, ufp) ==
    IF IsCenterUniform(ufp) THEN ExpansionFactor(uDeformation)
                            ELSE ContractionFactor(uDeformation, ufp)

\* Faulty variant: the z scaling is applied to every vertex, top face included.
ScaleZAll(localZ, factor) ==
    FMul(localZ, FDiv(SCALE, FMul(factor, factor)))

\* if (localPos.z < 0.0) { localPos.z *= 1.0 / (factor * factor); }
ScaleZ(localZ, factor) ==
    IF localZ < 0 THEN FMul(localZ, FDiv(SCALE, FMul(factor, factor)))
                  ELSE localZ

\* main(): the deformed position of one vertex under the two uniforms.
VertexShader(position, ufp, uDeformation) ==
    LET localX == position[1] - ufp[1]
        localY == position[2] - ufp[2]
        localZ == position[3] - ufp[3]
        factor == FiberScale(uDeformation, ufp)
    IN  << FMul(localX, factor) + ufp[1],
           FMul(localY, factor) + ufp[2],
           ScaleZ(localZ, factor) + ufp[3] >>

(***************************************************************************)
(* Closed-form component: the draw effect.                                 *)
(***************************************************************************)
\* const positions = [...]: the uniforms of the eight surrounding fibers.
SurroundingPositions ==
    << <<-(SCALE \div 2), -(SCALE \div 2)>>, <<0, -(SCALE \div 2)>>,
       <<SCALE \div 2, -(SCALE \div 2)>>,    <<-(SCALE \div 2), 0>>,
       <<SCALE \div 2, 0>>,                  <<-(SCALE \div 2), SCALE \div 2>>,
       <<0, SCALE \div 2>>,                  <<SCALE \div 2, SCALE \div 2>> >>

\* const offset = (i < 4 ? i : i + 1) * verticesPerFiber, as a fiber index,
\* for the loop index i = k - 1.
DrawnFiber(k) == IF k - 1 < 4 THEN k - 1 ELSE k

\* The draw calls of one effect run: (fiber drawn, uFiberPosition).
DrawCalls ==
    <<[fiber |-> CenterFiber, uFiberPosition |-> <<0, 0, 0>>]>> \o
    [k \in 1 .. 8 |->
        [fiber |-> DrawnFiber(k),
         uFiberPosition |-> <<SurroundingPositions[k][1], SurroundingPositions[k][2], 0>>]]

\* What one draw call puts on screen.
Drawn(call, d) ==
    [uFiberPosition |-> call.uFiberPosition,
     scaleXY |-> FiberScale(Uniform1f(d), call.uFiberPosition),
     verts |-> [v \in 1 .. 8 |->
                  VertexShader(Positions[call.fiber][v], call.uFiberPosition, Uniform1f(d))]]

\* The whole effect: every fiber is drawn by exactly one call.
DrawFrame(d) ==
    [f \in Fibers |->
        Drawn(DrawCalls[CHOOSE k \in 1 .. 9 : DrawCalls[k].fiber = f], d)]

NoFrame == <<>>

SliderSteps == 0 .. 100

\* The state after construction; the general component is not mounted.
InitClosed ==
    /\ deformation = 0
    /\ drawPending = TRUE
    /\ frame = NoFrame
    /\ fiberCount = Unmounted /\ fiberSpacing = Unmounted
    /\ selectedFiber = Unmounted /\ deformationValue = Unmounted
    /\ meshRef = Unmounted /\ deformations = Unmounted
    /\ posX = Unmounted /\ posZ = Unmounted /\ instanceMatrix = Unmounted
    /\ gridLines = Unmounted /\ filled = Unmounted /\ pc = Unmounted

\* useEffect(..., [deformation]): runs after the render that changed deformation
\* (and after mount).
DrawEffect ==
    /\ drawPending
    /\ frame' = DrawFrame(deformation)
    /\ drawPending' = FALSE
    /\ UNCHANGED deformation
    /\ UNCHANGED generalVars

\* onChange={(e) => setDeformation(parseFloat(e.target.value))}; effects of the
\* previous render are flushed before the next event is handled.
SetDeformation(d) ==
    /\ ~drawPending
    /\ d # deformation
    /\ deformation' = d
    /\ drawPending' = TRUE
    /\ UNCHANGED frame
    /\ UNCHANGED generalVars

NextClosed ==
    \/ DrawEffect
    \/ \E d \in SliderSteps : SetDeformation(d)

SpecClosed == InitClosed /\ [][NextClosed]_vars

(***************************************************************************)
(* General component: units and arithmetic.                                *)
(*                                                                         *)
(* The slider value is kept in hundredths (step="0.01").  Math.exp is      *)
(* tabulated in units of 1/DECAY_ONE, so that a deformation factor         *)
(* 1 + (v - 1) * influence is exact in units of 1/FONE, and a position,    *)
(* which adds halves of factor sums, is exact in units of 1/(2 * FONE).    *)
(***************************************************************************)
DECAY_ONE == 1000 * 100

FONE == 100 * DECAY_ONE

MaxCount == 5

\* fiberSpacing: the default and one other.
Spacings == {1, 2}

\* <input type="range" min="0.5" max="2" step="0.01">: both ends and the
\* neutral value.
DeformationValues == {50, 100, 200}

NoFiber == <<>>

NoMatrix == <<>>

NoLines == <<>>

Rows == 0 .. (fiberCount - 1)

\* Array.from({ length: fiberCount }, () => Array(fiberCount).fill(value))
FilledGrid(value) == [i \in Rows |-> [j \in Rows |-> value]]

\* Math.hypot(rowIndex - i, colIndex - j), kept as its square.
Hypot2(di, dj) == di * di + dj * dj

\* Math.exp(-distance * 1.5) for distance = sqrt(d2), rounded to 1/DECAY_ONE.
ExpDecay(d2) ==
    CASE d2 = 1 -> 22313 [] d2 = 2 -> 11987 [] d2 = 4 -> 4979 [] d2 = 5 -> 3494
      [] d2 = 8 -> 1437  [] d2 = 9 -> 1111  [] d2 = 10 -> 871 [] d2 = 13 -> 448
      [] d2 = 16 -> 248  [] d2 = 17 -> 206  [] d2 = 18 -> 172 [] d2 = 20 -> 122
      [] d2 = 25 -> 55   [] d2 = 26 -> 48   [] d2 = 29 -> 31  [] d2 = 32 -> 21
      [] d2 = 34 -> 16   [] d2 = 41 -> 7    [] d2 = 50 -> 2

\* deformationValue as a factor.
ValueFactor(v) == v * DECAY_ONE

(***************************************************************************)
(* General component: the useFrame pass.                                   *)
(***************************************************************************)
\* Faulty variant: the else branch is missing, the factors stay as they were.
ResetDeformationsKeep(defs) == defs

\* else { ... deformations.current[rowIndex][colIndex] = 1; }
ResetDeformations(defs) ==
    [rowIndex \in DOMAIN defs |-> [colIndex \in DOMAIN defs[rowIndex] |-> FONE]]

\* Faulty variant: the influence grows with the distance (1 - exp(...)).
SelectedDeformationsInverted(defs, sel, v) ==
    [rowIndex \in DOMAIN defs |-> [colIndex \in DOMAIN defs[rowIndex] |->
        IF rowIndex = sel[1] /\ colIndex = sel[2]
        THEN ValueFactor(v)
        ELSE LET influence ==
                    DECAY_ONE - ExpDecay(Hypot2(rowIndex - sel[1], colIndex - sel[2]))
             IN  FONE + (v - 100) * influence]]

\* if (selectedFiber) { deformations.current[i][j] = deformationValue; for ... }
SelectedDeformations(defs, sel, v) ==
    [rowIndex \in DOMAIN defs |-> [colIndex \in DOMAIN defs[rowIndex] |->
        IF rowIndex = sel[1] /\ colIndex = sel[2]
        THEN ValueFactor(v)
        ELSE LET influence == ExpDecay(Hypot2(rowIndex - sel[1], colIndex - sel[2]))
             IN  FONE + (v - 100) * influence]]

UpdateDeformations(defs, sel, v) ==
    IF sel # NoFiber THEN SelectedDeformations(defs, sel, v)
                     ELSE ResetDeformations(defs)

\* const initialX = -((fiberCount - 1) / 2) * fiberSpacing;  (initialZ is the same)
InitialX == -(fiberCount - 1) * fiberSpacing * FONE

InitialZ == -(fiberCount - 1) * fiberSpacing * FONE

\* Faulty variant: row 0 is added to, not assigned.
NextXAccumulate(px, defs, i, j) ==
    IF i = 0 THEN px[i][j] + InitialX
    ELSE px[i - 1][j] + fiberSpacing * (defs[i - 1][j] + defs[i][j])

\* Faulty variant: the spacing is added to the anchor, not to the predecessor.
NextXNoIntegration(px, defs, i, j) ==
    IF i = 0 THEN InitialX
    ELSE InitialX + fiberSpacing * (defs[i - 1][j] + defs[i][j])

\* if (i === 0) posX[i][j] = initialX;
\* else posX[i][j] = posX[i - 1][j] + fiberSpacing * avgDeformation;
NextX(px, defs, i, j) ==
    IF i = 0 THEN InitialX
    ELSE px[i - 1][j] + fiberSpacing * (defs[i - 1][j] + defs[i][j])

\* Faulty variant: the step uses the cell's own factor, not the average with
\* its predecessor's.
NextZOwnFactor(pz, defs, i, j) ==
    IF j = 0 THEN InitialZ
    ELSE pz[i][j - 1] + fiberSpacing * (2 * defs[i][j])

\* if (j === 0) posZ[i][j] = initialZ;
\* else posZ[i][j] = posZ[i][j - 1] + fiberSpacing * avgDeformation;
NextZ(pz, defs, i, j) ==
    IF j = 0 THEN InitialZ
    ELSE pz[i][j - 1] + fiberSpacing * (defs[i][j - 1] + defs[i][j])

\* for (let j = 0; ...) for (let i = 0; ...): iteration k visits i = k % N of
\* column j = k \div N and writes into the arrays the later iterations read.
RECURSIVE LayoutLoop(_, _, _, _)
LayoutLoop(px, pz, defs, k) ==
    IF k >= fiberCount * fiberCount
    THEN [posX |-> px, posZ |-> pz]
    ELSE LET j == k \div fiberCount
             i == k % fiberCount
         IN  LayoutLoop([px EXCEPT ![i][j] = NextX(px, defs, i, j)],
                        [pz EXCEPT ![i][j] = NextZ(pz, defs, i, j)],
                        defs, k + 1)

\* Faulty variant: the height scale is 1 / scale.
InverseLinear(scale) ==
    (1000 * 1000 * 1000) \div (scale \div 100)

\* 1 / (scale * scale), in units of 1e-4: scale is first rounded to 1e-4 and
\* its square to 1e-5.
InverseSquare(scale) ==
    LET s4 == scale \div (FONE \div 10000)
    IN  (1000 * 1000 * 1000) \div ((s4 * s4) \div 1000)

\* tempObject.position.set(posX[i][j], 0, posZ[i][j]);
\* tempObject.scale.set(scale, 1 / (scale * scale), scale);
Transform(defs, px, pz, i, j) ==
    LET scale == defs[i][j]
    IN  [position |-> <<px[i][j], 0, pz[i][j]>>,
         scale |-> <<scale, InverseSquare(scale), scale>>]

\* let index = 0; for i, for j: setMatrixAt(index, ...); index++
InstanceTransforms(defs, px, pz) ==
    [index \in 0 .. (fiberCount * fiberCount - 1) |->
        Transform(defs, px, pz, index \div fiberCount, index % fiberCount)]

\* The whole callback body after the meshRef guard.
FramePass(defs, px, pz, sel, v) ==
    LET newDefs == UpdateDeformations(defs, sel, v)
        layout == LayoutLoop(px, pz, newDefs, 0)
    IN  [deformations |-> newDefs,
         posX |-> layout.posX,
         posZ |-> layout.posZ,
         instanceMatrix |-> InstanceTransforms(newDefs, layout.posX, layout.posZ)]

(***************************************************************************)
(* General component: the render (base-space grid lines).                  *)
(***************************************************************************)
\* Array.from({ length: fiberCount - 1 }, ...): the indices of the segments.
SegmentIndex == 0 .. (fiberCount - 2)

\* The positions the render reads from posXRef/posZRef to build the
\* horizontal and vertical line segments.
GridLinesOf(px, pz, afterPass) ==
    [horizontal |-> [j \in Rows |-> [i \in SegmentIndex |->
                        <<px[i][j], 0, pz[i][j], px[i + 1][j], 0, pz[i + 1][j]>>]],
     vertical   |-> [i \in Rows |-> [j \in SegmentIndex |->
                        <<px[i][j], 0, pz[i][j], px[i][j + 1], 0, pz[i][j + 1]>>]],
     afterPass  |-> afterPass]

(***************************************************************************)
(* General component: state machine.                                       *)
(***************************************************************************)
\* The state when FiberBundle's refs have been created by its first call,
\* for the given props; the closed-form component is not mounted.
InitFor(count, spacing) ==
    /\ fiberCount = count
    /\ fiberSpacing = spacing
    /\ selectedFiber = NoFiber
    /\ deformationValue = 100
    /\ meshRef = FALSE
    /\ deformations = FilledGrid(FONE)
    /\ posX = FilledGrid(0)
    /\ posZ = FilledGrid(0)
    /\ instanceMatrix = NoMatrix
    /\ gridLines = NoLines
    /\ filled = FALSE
    /\ pc = "constructed"
    /\ deformation = Unmounted /\ drawPending = Unmounted /\ frame = Unmounted

\* Props in the documented domain: latticeSize >= 1, spacingUnit > 0.
InitGeneral ==
    \E count \in 1 .. MaxCount : \E spacing \in Spacings : InitFor(count, spacing)

\* Any props a caller can pass, among them an empty lattice and spacings
\* that are zero or negative; the component checks none of them.
InitAnyConfig ==
    \E count \in 0 .. 3 : \E spacing \in -1 .. 1 : InitFor(count, spacing)

\* The first render returns: the grid lines are built from the refs and the
\* instanced mesh is mounted.
Render ==
    /\ pc = "constructed"
    /\ gridLines' = GridLinesOf(posX, posZ, filled)
    /\ meshRef' = TRUE
    /\ pc' = "rendered"
    /\ UNCHANGED <<fiberCount, fiberSpacing, selectedFiber, deformationValue,
                   deformations, posX, posZ, instanceMatrix, filled>>
    /\ UNCHANGED closedVars

\* handlePointerDown with a ray that hits instance instanceId; the state
\* update re-renders FiberBundle, which reads the refs again, before the
\* frame callback sees the new selection.
HandlePointerDown(instanceId) ==
    /\ meshRef = TRUE
    /\ selectedFiber' = <<instanceId \div fiberCount, instanceId % fiberCount>>
    /\ gridLines' = GridLinesOf(posX, posZ, filled)
    /\ pc' = "rendered"
    /\ UNCHANGED <<fiberCount, fiberSpacing, deformationValue, meshRef,
                   deformations, posX, posZ, instanceMatrix, filled>>
    /\ UNCHANGED closedVars

\* onPointerMissed={() => setSelectedFiber(null)}; setting null over null is
\* no state change and no re-render.
PointerMissed ==
    /\ meshRef = TRUE
    /\ selectedFiber # NoFiber
    /\ selectedFiber' = NoFiber
    /\ gridLines' = GridLinesOf(posX, posZ, filled)
    /\ pc' = "rendered"
    /\ UNCHANGED <<fiberCount, fiberSpacing, deformationValue, meshRef,
                   deformations, posX, posZ, instanceMatrix, filled>>
    /\ UNCHANGED closedVars

\* handleSliderChange; the slider is rendered only while a fiber is selected.
HandleSliderChange(value) ==
    /\ meshRef = TRUE
    /\ selectedFiber # NoFiber
    /\ value # deformationValue
    /\ deformationValue' = value
    /\ gridLines' = GridLinesOf(posX, posZ, filled)
    /\ pc' = "rendered"
    /\ UNCHANGED <<fiberCount, fiberSpacing, selectedFiber, meshRef,
                   deformations, posX, posZ, instanceMatrix, filled>>
    /\ UNCHANGED closedVars

\* useFrame(() => { if (!meshRef.current) return; ... })
Frame ==
    /\ meshRef = TRUE
    /\ LET pass == FramePass(deformations, posX, posZ, selectedFiber, deformationValue)
       IN  /\ deformations' = pass.deformations
           /\ posX' = pass.posX
           /\ posZ' = pass.posZ
           /\ instanceMatrix' = pass.instanceMatrix
    /\ filled' = TRUE
    /\ pc' = "passed"
    /\ UNCHANGED <<fiberCount, fiberSpacing, selectedFiber, deformationValue,
                   meshRef, gridLines>>
    /\ UNCHANGED closedVars

Next ==
    \/ Render
    \/ \E instanceId \in 0 .. (fiberCount * fiberCount - 1) : HandlePointerDown(instanceId)
    \/ PointerMissed
    \/ \E value \in DeformationValues : HandleSliderChange(value)
    \/ Frame

Spec == InitGeneral /\ [][Next]_vars

SpecAnyConfig == InitAnyConfig /\ [][Next]_vars

(***************************************************************************)
(* Closed-form component: measurements on a drawn frame.                   *)
(***************************************************************************)
\* Comparisons of computed lengths allow 1e-3 for the rounding of the
\* arithmetic; areas (units of 1/SCALE^2) allow 2.5e-3.
Tolerance == SCALE \div 1000

AreaTolerance == 25 * SCALE

Neighbors == Fibers \ {CenterFiber}

Coord(verts, axis) == {verts[v][axis] : v \in 1 .. 8}

Lowest(verts, axis) == CHOOSE m \in Coord(verts, axis) : \A c \in Coord(verts, axis) : m <= c

Highest(verts, axis) == CHOOSE m \in Coord(verts, axis) : \A c \in Coord(verts, axis) : m >= c

Extent(verts, axis) == Highest(verts, axis) - Lowest(verts, axis)

\* The distance between the cross-sections of a and b along one axis
\* (negative when their intervals overlap).
AxisGap(a, b, axis) ==
    Max(Lowest(b, axis) - Highest(a, axis), Lowest(a, axis) - Highest(b, axis))

\* Two axis-aligned cross-sections intersect iff they overlap on both axes;
\* otherwise the free space between them is the larger axis gap.
CrossSectionGap(a, b) == Max(AxisGap(a, b, 1), AxisGap(a, b, 2))

\* Cross-section area times the height between bottom and top face.
Volume(verts) == FMul(FMul(Extent(verts, 1), Extent(verts, 2)), Extent(verts, 3))

\* Sum over the nine fibers of scaleXY^2, in units of 1/SCALE^2.
RECURSIVE AreaSum(_, _)
AreaSum(fr, f) ==
    IF f > 8 THEN 0 ELSE fr[f].scaleXY * fr[f].scaleXY + AreaSum(fr, f + 1)

\* areaBasedContraction >= maxSafeContraction for all eight neighbors.
AreaDominates(d) ==
    \A k \in 1 .. 8 :
        LET ufp == <<SurroundingPositions[k][1], SurroundingPositions[k][2], 0>>
        IN  AreaBasedContraction(Uniform1f(d)) >= MaxSafeContraction(Uniform1f(d), ufp)

\* The frame on screen is the one drawn for the current slider value.
FrameDrawn == frame # NoFrame /\ ~drawPending

(***************************************************************************)
(* Claims about the closed-form component (checked under SpecClosed).      *)
(***************************************************************************)
\* C1 (as stated): in every drawn frame, each of the eight neighbor
\* cross-sections is disjoint from the center's cross-section and at least
\* MIN_SPACING away from it.
C1_NoOverlapMinSpacing ==
    frame # NoFrame =>
        \A n \in Neighbors :
            /\ CrossSectionGap(frame[CenterFiber].verts, frame[n].verts) > 0
            /\ CrossSectionGap(frame[CenterFiber].verts, frame[n].verts) >= MIN_SPACING

\* C2 (as stated): in every drawn frame, each fiber's volume equals its
\* undeformed volume, and its height is the original height divided by
\* scale_x * scale_y.
C2_VolumeConserved ==
    frame # NoFrame =>
        \A f \in Fibers :
            /\ Abs(Volume(frame[f].verts) - Volume(Positions[f])) <= Tolerance
            /\ Abs(Extent(frame[f].verts, 3)
                   - FDiv(Extent(Positions[f], 3),
                          FMul(frame[f].scaleXY, frame[f].scaleXY))) <= Tolerance

\* C3: in every drawn frame the sum over the nine fibers of scaleXY^2 is 9.0
\* (within rounding) when the area-based contraction dominates the safe
\* contraction for all neighbors, and is at most 9.0 otherwise.
C3_AreaBudget ==
    FrameDrawn =>
        /\ AreaDominates(deformation) =>
              Abs(AreaSum(frame, 0) - 9 * SCALE * SCALE) <= AreaTolerance
        /\ ~AreaDominates(deformation) =>
              AreaSum(frame, 0) <= 9 * SCALE * SCALE + AreaTolerance

\* C3 witness: a frame drawn at full deformation, the center at 2.1 and every
\* neighbor contracted below 1.
C3_Witness ==
    /\ FrameDrawn
    /\ deformation = 100
    /\ frame[CenterFiber].scaleXY = MAX_EXPANSION
    /\ \A n \in Neighbors : frame[n].scaleXY < SCALE
    /\ AreaDominates(deformation)

\* C8: in every drawn frame, every vertex whose local z is non-negative keeps
\* its original z; only vertices with negative local z have their z changed.
C8_TopHalfPinned ==
    frame # NoFrame =>
        \A f \in Fibers : \A v \in 1 .. 8 :
            LET localZ == Positions[f][v][3] - frame[f].uFiberPosition[3]
            IN  /\ localZ >= 0 => frame[f].verts[v][3] = Positions[f][v][3]
                /\ frame[f].verts[v][3] # Positions[f][v][3] => localZ < 0

\* C8 witness: a frame at full deformation in which every fiber's bottom face
\* has moved and every top face is where it was.
C8_Witness ==
    /\ FrameDrawn
    /\ deformation = 100
    /\ \A f \in Fibers :
          /\ Lowest(frame[f].verts, 3) # -height
          /\ Highest(frame[f].verts, 3) = height

(***************************************************************************)
(* Claims about the general component (checked under Spec, C9 under        *)
(* SpecAnyConfig).                                                         *)
(***************************************************************************)
\* The last step was a pass: the lattice holds what useFrame computed for
\* the current selection and slider value.
AfterPass == pc = "passed"

\* The anchor -((N-1)/2)*spacing and one spacing step, in position units.
Anchor == -(fiberCount - 1) * fiberSpacing * FONE

SpacingStep == 2 * fiberSpacing * FONE

\* A lattice as the constructor leaves it.
FreshPass(sel, v) == FramePass(FilledGrid(FONE), FilledGrid(0), FilledGrid(0), sel, v)

\* C4: after a pass run with no selected fiber, every deformation factor is 1
\* and cell (i,j) is at x = anchor + i*spacing, z = anchor + j*spacing.
C4_NeutralWithoutSelection ==
    (AfterPass /\ selectedFiber = NoFiber) =>
        \A i \in Rows : \A j \in Rows :
            /\ deformations[i][j] = FONE
            /\ posX[i][j] = Anchor + i * SpacingStep
            /\ posZ[i][j] = Anchor + j * SpacingStep

\* C4 witness: a pass without selection, the slider left at 2.0, on a 3x3
\* lattice whose grid lines were read from the deformed layout of an earlier
\* pass.
C4_Witness ==
    /\ AfterPass
    /\ selectedFiber = NoFiber
    /\ deformationValue = 200
    /\ fiberCount = 3
    /\ gridLines.afterPass
    /\ gridLines # GridLinesOf(posX, posZ, TRUE)

\* C5: what a pass leaves is what the same pass leaves on a freshly
\* constructed lattice, and running the pass again changes nothing.
C5_PassIsFunctionOfInputs ==
    AfterPass =>
        LET fresh == FreshPass(selectedFiber, deformationValue)
            again == FramePass(deformations, posX, posZ, selectedFiber, deformationValue)
        IN  /\ deformations = fresh.deformations
            /\ posX = fresh.posX
            /\ posZ = fresh.posZ
            /\ instanceMatrix = fresh.instanceMatrix
            /\ again.deformations = deformations
            /\ again.posX = posX
            /\ again.posZ = posZ
            /\ again.instanceMatrix = instanceMatrix

\* C5 witness: a pass for a selected cell at 0.5 on a lattice that an earlier
\* pass had laid out differently (the grid lines still show that layout).
C5_Witness ==
    /\ AfterPass
    /\ selectedFiber = <<1, 2>>
    /\ deformationValue = 50
    /\ fiberCount = 4
    /\ gridLines.afterPass
    /\ gridLines # GridLinesOf(posX, posZ, TRUE)
    /\ gridLines # GridLinesOf(FreshPass(NoFiber, 100).posX, FreshPass(NoFiber, 100).posZ, TRUE)

\* C6: after every pass in which all deformation factors are > 0, x is
\* strictly increasing in the row index i for every column j, and z is
\* strictly increasing in the column index j for every row i.
C6_StrictlyMonotonic ==
    (AfterPass /\ \A i \in Rows : \A j \in Rows : deformations[i][j] > 0) =>
        /\ \A j \in Rows : \A i \in Rows \ {0} : posX[i - 1][j] < posX[i][j]
        /\ \A i \in Rows : \A j \in Rows \ {0} : posZ[i][j - 1] < posZ[i][j]

\* C6 witness: the 5x5 lattice with cell (2,2) selected at 2.0, after a pass.
C6_Witness ==
    /\ AfterPass
    /\ fiberCount = 5
    /\ selectedFiber = <<2, 2>>
    /\ deformationValue = 200
    /\ deformations[2][2] = 2 * FONE
    /\ \A i \in Rows : \A j \in Rows : deformations[i][j] > 0

\* s^2 * (1/s^2) for the scale triple of a transform, where 1 is
\* 1000 * 1000 * 1000.
ScaleProduct(scale) ==
    LET s4 == scale[1] \div (FONE \div 10000)
        t4 == scale[3] \div (FONE \div 10000)
    IN  ((s4 * t4) \div 1000) * scale[2]

\* C7: every transform a pass emits has both planar scale components equal to
\* the cell's deformation factor f and a height scale of 1/f^2, so the product
\* of the three is 1 (within 1e-3 for the rounding of the division).
C7_VolumePerCell ==
    instanceMatrix # NoMatrix =>
        \A i \in Rows : \A j \in Rows :
            LET m == instanceMatrix[i * fiberCount + j]
            IN  /\ m.scale[1] = deformations[i][j]
                /\ m.scale[3] = deformations[i][j]
                /\ Abs(ScaleProduct(m.scale) - 1000 * 1000 * 1000) <= 1000 * 1000

\* C7 witness: transforms emitted for a selected cell at 0.5, with scales
\* that differ from cell to cell.
C7_Witness ==
    /\ AfterPass
    /\ fiberCount = 3
    /\ selectedFiber = <<0, 1>>
    /\ deformationValue = 50
    /\ instanceMatrix[1].scale = <<FONE \div 2, 40000, FONE \div 2>>
    /\ instanceMatrix[0].scale[1] # instanceMatrix[8].scale[1]
    /\ instanceMatrix[8].scale[1] < FONE

\* C9 (as stated): a configuration with latticeSize < 1 or spacingUnit <= 0
\* is rejected: nothing is mounted for it and no pass runs on it.
C9_InvalidConfigRejected ==
    (fiberCount < 1 \/ fiberSpacing <= 0) => (meshRef = FALSE /\ filled = FALSE)

\* C10 (as stated): whenever a consumer has read the position grid (the grid
\* lines of a lattice that has segments, the instance transforms), a pass had
\* completed before the read.
C10_ReadsAfterPass ==
    /\ (gridLines # NoLines /\ fiberCount >= 2) => gridLines.afterPass
    /\ instanceMatrix # NoMatrix => filled

(***************************************************************************)
(* Further claims about the closed-form component (under SpecClosed).      *)
(***************************************************************************)
\* C11: in a frame drawn for deformation 0, the center's expansion factor
\* and every neighbor's contraction factor are 1 (at both neighbor distances)
\* and every vertex of every fiber is at its original position.
C11_IdentityAtZero ==
    (FrameDrawn /\ deformation = 0) =>
        \A f \in Fibers :
            /\ frame[f].scaleXY = SCALE
            /\ frame[f].verts = Positions[f]

\* C11 witness: the frame drawn for deformation 0, with neighbors at
\* distance 0.5 (fiber 1) and sqrt(0.5) (fiber 0) among its fibers.
C11_Witness ==
    /\ FrameDrawn
    /\ deformation = 0
    /\ Length(frame[1].uFiberPosition[1], frame[1].uFiberPosition[2]) = SCALE \div 2
    /\ Length(frame[0].uFiberPosition[1], frame[0].uFiberPosition[2]) = 7071
    /\ ~IsCenterUniform(frame[0].uFiberPosition)

\* C15: in every drawn frame, for each of the eight neighbors the area-based
\* contraction is at least the safe contraction, the factor applied is the
\* area-based one, sqrt((9 - expansionFactor^2)/8) within rounding, and it is
\* the same for all eight.
C15_ClampNeverActive ==
    FrameDrawn =>
        LET e == frame[CenterFiber].scaleXY
        IN  \A n \in Neighbors :
               LET c == frame[n].scaleXY
               IN  /\ AreaBasedContraction(Uniform1f(deformation))
                        >= MaxSafeContraction(Uniform1f(deformation), frame[n].uFiberPosition)
                   /\ c = AreaBasedContraction(Uniform1f(deformation))
                   /\ Abs(8 * c * c - (9 * SCALE * SCALE - e * e)) <= AreaTolerance
                   /\ \A m \in Neighbors : frame[m].scaleXY = c

\* C15 witness: the frame at full deformation, where the safe contraction of
\* an edge neighbor is negative and that of a corner neighbor is below the
\* area-based 0.7574.
C15_Witness ==
    /\ FrameDrawn
    /\ deformation = 100
    /\ MaxSafeContraction(Uniform1f(100), frame[1].uFiberPosition) < 0
    /\ MaxSafeContraction(Uniform1f(100), frame[0].uFiberPosition) > 0
    /\ MaxSafeContraction(Uniform1f(100), frame[0].uFiberPosition) < frame[0].scaleXY
    /\ frame[0].scaleXY = frame[1].scaleXY

(***************************************************************************)
(* Further claims about the general component (under Spec).                *)
(***************************************************************************)
OtherCells == {c \in Rows \X Rows : c # selectedFiber}

\* The grid distance of a cell from the selected one, squared.
Distance2(c) == Hypot2(c[1] - selectedFiber[1], c[2] - selectedFiber[2])

\* How far a cell's factor is from 1.
Deviation(c) == Abs(deformations[c[1]][c[2]] - FONE)

\* C12: after a pass with a selected cell and slider value v, the selected
\* cell's factor is v; every other factor is 1 + (v-1)*influence with
\* 0 < influence < 1, lies between 1 and v and in [0.5, 2]; and a cell farther
\* from the selection deviates less from 1 (strictly, unless v = 1).
C12_DecayingInfluence ==
    (AfterPass /\ selectedFiber # NoFiber) =>
        LET v == ValueFactor(deformationValue)
        IN  /\ deformations[selectedFiber[1]][selectedFiber[2]] = v
            /\ \A c \in OtherCells :
                  LET f == deformations[c[1]][c[2]]
                  IN  /\ Min(FONE, v) <= f /\ f <= Max(FONE, v)
                      /\ FONE \div 2 <= f /\ f <= 2 * FONE /\ f > 0
                      /\ deformationValue = 100 => f = FONE
                      /\ deformationValue # 100 =>
                            /\ Abs(f - FONE) % Abs(deformationValue - 100) = 0
                            /\ Abs(f - FONE) \div Abs(deformationValue - 100) > 0
                            /\ Abs(f - FONE) \div Abs(deformationValue - 100) < DECAY_ONE
                            /\ f # FONE /\ f # v
            /\ \A a \in OtherCells : \A b \in OtherCells :
                  Distance2(a) < Distance2(b) =>
                      /\ Deviation(a) >= Deviation(b)
                      /\ deformationValue # 100 => Deviation(a) > Deviation(b)

\* C12 witness: the 5x5 lattice with (2,2) selected at 0.5, after a pass: the
\* direct neighbor is contracted more than the corner, both less than 1.
C12_Witness ==
    /\ AfterPass
    /\ fiberCount = 5
    /\ selectedFiber = <<2, 2>>
    /\ deformationValue = 50
    /\ deformations[2][2] = FONE \div 2
    /\ deformations[2][3] < deformations[0][0]
    /\ deformations[0][0] < FONE

\* C13: at the end of every pass, x of row 0 is the anchor and
\* x(i,j) = x(i-1,j) + spacing*(f(i-1,j)+f(i,j))/2 for i > 0; z of column 0 is
\* the anchor and z(i,j) = z(i,j-1) + spacing*(f(i,j-1)+f(i,j))/2 for j > 0,
\* with f and the predecessor positions those this pass left.
C13_LayoutRecurrence ==
    AfterPass =>
        \A i \in Rows : \A j \in Rows :
            /\ i = 0 => posX[i][j] = Anchor
            /\ i > 0 => posX[i][j] = posX[i - 1][j]
                           + fiberSpacing * (deformations[i - 1][j] + deformations[i][j])
            /\ j = 0 => posZ[i][j] = Anchor
            /\ j > 0 => posZ[i][j] = posZ[i][j - 1]
                           + fiberSpacing * (deformations[i][j - 1] + deformations[i][j])

\* C13 witness: a pass for a selection at 2.0 on a 4x4 lattice of spacing 2
\* that an earlier pass had laid out for other inputs.
C13_Witness ==
    /\ AfterPass
    /\ fiberCount = 4
    /\ fiberSpacing = 2
    /\ selectedFiber = <<3, 0>>
    /\ deformationValue = 200
    /\ gridLines.afterPass
    /\ gridLines # GridLinesOf(posX, posZ, TRUE)
    /\ posX[3][0] - posX[2][0] > posX[1][0] - posX[0][0]

\* C14 (as stated): whenever grid lines have been built (for a lattice that
\* has segments), the positions read for them are the layout of the current
\* selection and slider value.
C14_GridLinesCurrent ==
    (gridLines # NoLines /\ fiberCount >= 2) =>
        LET layout == FreshPass(selectedFiber, deformationValue)
            lines == GridLinesOf(layout.posX, layout.posZ, TRUE)
        IN  /\ gridLines.horizontal = lines.horizontal
            /\ gridLines.vertical = lines.vertical

====
